---- MODULE Spec2Model ----
(***************************************************************************)
(* Ticket triage (flask_app.py): the keyword scorer analyze_ticket and the *)
(* request handler index().                                                *)
(*                                                                         *)
(* A Python str is a sequence of one-character strings, so that `in`       *)
(* (substring search), lower() and the f-string concatenation are computed *)
(* character by character.                                                 *)
(***************************************************************************)
EXTENDS Integers, Sequences, FiniteSets, TLC

VARIABLES ticket_data, result, SAMPLE_TICKETS, frames, nreq, log, overlapped, initTickets

vars == <<ticket_data, result, SAMPLE_TICKETS, frames, nreq, log, overlapped, initTickets>>

(* ---------------------------------------------------------------------- *)
(* Bounds                                                                  *)
(* ---------------------------------------------------------------------- *)
\* number of vocabulary fragments a generated ticket body is made of
MaxWords == 5

\* length of the generated ticket lists served by index()
MaxTickets == 2

\* number of requests the server receives in one behaviour
MaxRequests == 3

(* ---------------------------------------------------------------------- *)
(* Python built-ins                                                        *)
(* ---------------------------------------------------------------------- *)
\* Optional values: None is the empty sequence, a value v is <<v>>
None == <<>>

Some(v) == <<v>>

UpperCase == <<"A","B","C","D","E","F","G","H","I","J","K","L","M","N","O","P","Q","R","S","T","U","V","W","X","Y","Z">>

LowerCase == <<"a","b","c","d","e","f","g","h","i","j","k","l","m","n","o","p","q","r","s","t","u","v","w","x","y","z">>

\* str.lower() on one character
LowerChar(c) ==
  IF \E k \in 1..Len(UpperCase) : UpperCase[k] = c
  THEN LowerCase[CHOOSE k \in 1..Len(UpperCase) : UpperCase[k] = c]
  ELSE c

RECURSIVE lower(_)
\* str.lower()
lower(s) ==
  IF s = << >> THEN << >>
  ELSE IF Len(s) = 1 THEN << LowerChar(s[1]) >>
  ELSE LET h == Len(s) \div 2
       IN  lower(SubSeq(s, 1, h)) \o lower(SubSeq(s, h + 1, Len(s)))

\* `word in text` with only whole, space-delimited words matching (what
\* `word in text.split()` would do); used to vary Contains
ContainsWholeWord(text, word) ==
  \E k \in 1..(Len(text) - Len(word) + 1) :
    /\ SubSeq(text, k, k + Len(word) - 1) = word
    /\ (k = 1 \/ text[k - 1] = " ")
    /\ (k + Len(word) - 1 = Len(text) \/ text[k + Len(word)] = " ")

\* `word in text` for two str: substring search
Contains(text, word) ==
  \E k \in 1..(Len(text) - Len(word) + 1) :
    SubSeq(text, k, k + Len(word) - 1) = word

\* any(word in text for word in words)
AnyIn(text, words) == \E w \in words : Contains(text, w)

\* f"{subject} {body}".lower()
TextOf(subject, body) == lower(subject \o << " " >> \o body)

\* x in list
InList(x, list) == \E k \in 1..Len(list) : list[k] = x

(* ---------------------------------------------------------------------- *)
(* Enumerations                                                            *)
(* ---------------------------------------------------------------------- *)
Priority == [URGENT |-> "Urgent", CRITICAL |-> "Critical", HIGH |-> "High", NORMAL |-> "Normal", LOW |-> "Low"]

Sentiment == [VERY_NEGATIVE |-> "Very Negative", NEGATIVE |-> "Negative", NEUTRAL |-> "Neutral", POSITIVE |-> "Positive"]

(* ---------------------------------------------------------------------- *)
(* analyze_ticket                                                          *)
(* ---------------------------------------------------------------------- *)
\* Urgency detection
urgency(text) ==
  IF AnyIn(text, {<<"t","o","d","a","y">>, <<"5"," ","p","m">>, <<"b","y"," ">>}) THEN 10
  ELSE IF AnyIn(text, {<<"m","i","s","s","i","n","g">>, <<"w","h","e","r","e"," ","i","s">>, <<"?","?">>}) THEN 9
  ELSE IF AnyIn(text, {<<"e","r","r","o","r">>, <<"5","0","0">>}) THEN 7
  ELSE IF AnyIn(text, {<<"l","o","g","i","n">>, <<"c","a","n","'","t">>, <<"t","r","y","i","n","g"," ","t","o">>}) THEN 7
  ELSE IF AnyIn(text, {<<"f","e","a","t","u","r","e">>, <<"w","o","u","l","d"," ","b","e"," ","g","r","e","a","t">>}) THEN 1
  ELSE 3

\* Financial impact
financial_impact(text) ==
  IF Contains(text, <<"d","i","s","t","r","i","b","u","t","i","o","n">>) /\ AnyIn(text, {<<"m","i","s","s","i","n","g">>, <<"w","h","e","r","e"," ","i","s">>}) THEN 10
  ELSE IF AnyIn(text, {<<"d","i","s","t","r","i","b","u","t","i","o","n">>, <<"b","a","n","k">>, <<"a","c","c","o","u","n","t">>}) THEN 8
  ELSE IF AnyIn(text, {<<"k","-","1">>, <<"t","a","x">>}) THEN 7
  ELSE IF AnyIn(text, {<<"l","o","g","i","n">>, <<"a","c","c","e","s","s">>}) THEN 3
  ELSE 0

\* User blocking
blocking(text) ==
  IF Contains(text, <<"c","a","n","'","t">>) \/ Contains(text, <<"t","r","y","i","n","g"," ","t","o"," ","l","o","g"," ","i","n">>) THEN 10
  ELSE IF AnyIn(text, {<<"e","r","r","o","r">>, <<"5","0","0">>}) THEN 7
  ELSE IF AnyIn(text, {<<"u","p","d","a","t","e">>, <<"p","l","e","a","s","e">>}) THEN 3
  ELSE 0

\* Sentiment analysis with the negative branch tested before the very
\* negative one; used to vary sentiment
sentimentNegativeFirst(text) ==
  IF AnyIn(text, {<<"n","e","e","d"," ","t","h","i","s">>, <<"c","h","e","c","k","e","d"," ","s","p","a","m">>})
  THEN [sentiment_value |-> -2, sentiment |-> Sentiment.NEGATIVE]
  ELSE IF AnyIn(text, {<<"u","n","a","c","c","e","p","t","a","b","l","e">>, <<"?","?">>, <<"a","n","g","r","y">>})
  THEN [sentiment_value |-> -3, sentiment |-> Sentiment.VERY_NEGATIVE]
  ELSE IF AnyIn(text, {<<"g","r","e","a","t">>, <<"j","u","s","t"," ","a"," ","t","h","o","u","g","h","t">>})
  THEN [sentiment_value |-> 1, sentiment |-> Sentiment.POSITIVE]
  ELSE [sentiment_value |-> 0, sentiment |-> Sentiment.NEUTRAL]

\* Sentiment analysis: the value that enters the score and the label
sentiment(text) ==
  IF AnyIn(text, {<<"u","n","a","c","c","e","p","t","a","b","l","e">>, <<"?","?">>, <<"a","n","g","r","y">>})
  THEN [sentiment_value |-> -3, sentiment |-> Sentiment.VERY_NEGATIVE]
  ELSE IF AnyIn(text, {<<"n","e","e","d"," ","t","h","i","s">>, <<"c","h","e","c","k","e","d"," ","s","p","a","m">>})
  THEN [sentiment_value |-> -2, sentiment |-> Sentiment.NEGATIVE]
  ELSE IF AnyIn(text, {<<"g","r","e","a","t">>, <<"j","u","s","t"," ","a"," ","t","h","o","u","g","h","t">>})
  THEN [sentiment_value |-> 1, sentiment |-> Sentiment.POSITIVE]
  ELSE [sentiment_value |-> 0, sentiment |-> Sentiment.NEUTRAL]

\* the score with the sentiment value left out; used to vary priority_score
priority_scoreNoSentiment(u, f, b, sv) == (u * 3) + (f * 3) + (b * 2)

\* the score with urgency weighted 4; used to vary priority_score
priority_scoreWeight4(u, f, b, sv) == (u * 4) + (f * 3) + (b * 2) + sv

\* Calculate priority score
priority_score(u, f, b, sv) == (u * 3) + (f * 3) + (b * 2) + sv

\* the tier with exclusive thresholds; used to vary priority
priorityExclusive(score) ==
  IF score > 50 THEN Priority.URGENT
  ELSE IF score > 45 THEN Priority.CRITICAL
  ELSE IF score > 35 THEN Priority.HIGH
  ELSE IF score > 20 THEN Priority.NORMAL
  ELSE Priority.LOW

\* Determine priority level
priority(score) ==
  IF score >= 50 THEN Priority.URGENT
  ELSE IF score >= 45 THEN Priority.CRITICAL
  ELSE IF score >= 35 THEN Priority.HIGH
  ELSE IF score >= 20 THEN Priority.NORMAL
  ELSE Priority.LOW

\* Categorization: a list, appended to in this order
categories(text) ==
     (IF AnyIn(text, {<<"l","o","g","i","n">>, <<"p","a","s","s","w","o","r","d">>, <<"a","c","c","e","s","s">>}) THEN << "Authentication" >> ELSE << >>)
  \o (IF AnyIn(text, {<<"k","-","1">>, <<"t","a","x">>}) THEN << "Tax Documents" >> ELSE << >>)
  \o (IF AnyIn(text, {<<"b","a","n","k">>, <<"a","c","c","o","u","n","t">>}) THEN << "Banking" >> ELSE << >>)
  \o (IF Contains(text, <<"d","i","s","t","r","i","b","u","t","i","o","n">>) THEN << "Distributions" >> ELSE << >>)
  \o (IF AnyIn(text, {<<"e","r","r","o","r">>, <<"5","0","0">>}) THEN << "Technical Issue" >> ELSE << >>)
  \o (IF AnyIn(text, {<<"f","e","a","t","u","r","e">>, <<"w","o","u","l","d"," ","b","e"," ","g","r","e","a","t">>}) THEN << "Feature Request" >> ELSE << >>)
  \o (IF AnyIn(text, {<<"e","x","p","o","r","t">>, <<"r","e","p","o","r","t">>}) THEN << "Reporting" >> ELSE << >>)
  \o (IF AnyIn(text, {<<"u","n","a","c","c","e","p","t","a","b","l","e">>, <<"?","?">>}) THEN << "Escalation" >> ELSE << >>)

\* the action type with the category rules tested before the tier rule;
\* used to vary action_type
action_typeCategoriesFirst(prio, cats) ==
  IF InList("Technical Issue", cats) THEN "Engineering Investigation"
  ELSE IF InList("Feature Request", cats) THEN "Product Backlog"
  ELSE IF \E cat \in {"Banking", "Distributions"} : InList(cat, cats) THEN "Account Management"
  ELSE IF prio \in {Priority.URGENT, Priority.CRITICAL} THEN "Immediate Response Required"
  ELSE "Standard Support"

\* Action type
action_type(prio, cats) ==
  IF prio \in {Priority.URGENT, Priority.CRITICAL} THEN "Immediate Response Required"
  ELSE IF InList("Technical Issue", cats) THEN "Engineering Investigation"
  ELSE IF InList("Feature Request", cats) THEN "Product Backlog"
  ELSE IF \E cat \in {"Banking", "Distributions"} : InList(cat, cats) THEN "Account Management"
  ELSE "Standard Support"

\* the scoring steps of analyze_ticket, in the order they run
ScoringSteps == {"urgency", "financial_impact", "blocking", "sentiment", "priority_score", "priority", "categories", "action_type"}

\* lines 53-146: every local the scoring computes from the two text fields
Scoring(subject, body) ==
  LET text == TextOf(subject, body)
      u    == urgency(text)
      f    == financial_impact(text)
      b    == blocking(text)
      s    == sentiment(text)
      sc   == priority_score(u, f, b, s.sentiment_value)
      p    == priority(sc)
      c    == categories(text)
  IN  [priority |-> p, priority_score |-> sc, sentiment |-> s.sentiment,
       categories |-> c, action_type |-> action_type(p, c),
       urgency |-> u, financial_impact |-> f, blocking |-> b]

\* raise KeyError(key), with the scoring steps that had run by then
KeyError(key, steps) == [raised |-> "KeyError", key |-> key, steps |-> steps, value |-> None]

\* the Ticket(...) constructor call of the return statement
Ticket(td, s) ==
  [id |-> td.id, subject |-> td.subject, body |-> td.body,
   priority |-> s.priority, priority_score |-> s.priority_score,
   sentiment |-> s.sentiment, categories |-> s.categories,
   action_type |-> s.action_type, urgency |-> s.urgency,
   financial_impact |-> s.financial_impact, blocking |-> s.blocking]

\* analyze_ticket(ticket_data): the outcome of the call, either the returned
\* Ticket or the KeyError raised by a subscript of the dict.  The f-string
\* reads 'subject' then 'body' before any scoring; 'id' is read only by the
\* return statement, after all the scoring.
analyze_ticket(td) ==
  IF "subject" \notin DOMAIN td THEN KeyError("subject", {})
  ELSE IF "body" \notin DOMAIN td THEN KeyError("body", {})
  ELSE IF "id" \notin DOMAIN td THEN KeyError("id", ScoringSteps)
  ELSE [raised |-> "", key |-> "", steps |-> ScoringSteps,
        value |-> Some(Ticket(td, Scoring(td.subject, td.body)))]

(* ---------------------------------------------------------------------- *)
(* Sample tickets                                                          *)
(* ---------------------------------------------------------------------- *)
Sample101 == [id |-> 101, subject |-> <<"L","o","g","i","n"," ","h","e","l","p">>, body |-> <<"I","'","m"," ","t","r","y","i","n","g"," ","t","o"," ","l","o","g"," ","i","n"," ","t","o"," ","s","e","e"," ","m","y"," ","K","-","1","s"," ","b","u","t"," ","t","h","e"," ","p","a","s","s","w","o","r","d"," ","l","i","n","k"," ","i","s","n","'","t"," ","a","r","r","i","v","i","n","g","."," ","I"," ","c","h","e","c","k","e","d"," ","s","p","a","m","."," ","I"," ","n","e","e","d"," ","t","h","i","s"," ","f","o","r"," ","m","y"," ","a","c","c","o","u","n","t","a","n","t"," ","b","y"," ","5"," ","P","M"," ","t","o","d","a","y",".">>]

Sample102 == [id |-> 102, subject |-> <<"B","a","n","k"," ","U","p","d","a","t","e">>, body |-> <<"P","l","e","a","s","e"," ","u","p","d","a","t","e"," ","m","y"," ","d","i","s","t","r","i","b","u","t","i","o","n"," ","i","n","s","t","r","u","c","t","i","o","n","s","."," ","I"," ","w","a","n","t"," ","m","y"," ","d","i","v","i","d","e","n","d","s"," ","s","e","n","t"," ","t","o"," ","m","y"," ","n","e","w"," ","C","h","a","s","e"," ","a","c","c","o","u","n","t"," ","e","n","d","i","n","g"," ","i","n"," ","4","4","9","0","."," ","A","t","t","a","c","h","e","d"," ","i","s"," ","a"," ","v","o","i","d","e","d"," ","c","h","e","c","k",".">>]

Sample103 == [id |-> 103, subject |-> <<"P","l","a","t","f","o","r","m"," ","E","r","r","o","r">>, body |-> <<"I","'","m"," ","g","e","t","t","i","n","g"," ","a"," ","5","0","0"," ","e","r","r","o","r"," ","w","h","e","n"," ","I"," ","t","r","y"," ","t","o"," ","e","x","p","o","r","t"," ","t","h","e"," ","'","Q","3"," ","P","e","r","f","o","r","m","a","n","c","e"," ","R","e","p","o","r","t","'"," ","P","D","F","."," ","I","'","v","e"," ","t","r","i","e","d"," ","o","n"," ","C","h","r","o","m","e"," ","a","n","d"," ","S","a","f","a","r","i","."," ","S","c","r","e","e","n","s","h","o","t"," ","a","t","t","a","c","h","e","d",".">>]

Sample104 == [id |-> 104, subject |-> <<"A","n","g","r","y"," ","/"," ","M","i","s","s","i","n","g"," ","F","u","n","d","s">>, body |-> <<"W","h","e","r","e"," ","i","s"," ","m","y"," ","d","i","s","t","r","i","b","u","t","i","o","n","?","?"," ","I","t"," ","w","a","s"," ","s","u","p","p","o","s","e","d"," ","t","o"," ","h","i","t"," ","y","e","s","t","e","r","d","a","y","."," ","T","h","i","s"," ","i","s"," ","u","n","a","c","c","e","p","t","a","b","l","e","."," ","I","'","v","e"," ","b","e","e","n"," ","a","n"," ","i","n","v","e","s","t","o","r"," ","f","o","r"," ","5"," ","y","e","a","r","s"," ","a","n","d"," ","n","e","v","e","r"," ","s","e","e","n"," ","s","u","c","h"," ","a"," ","d","e","l","a","y",".">>]

Sample105 == [id |-> 105, subject |-> <<"F","e","a","t","u","r","e"," ","R","e","q","u","e","s","t">>, body |-> <<"I","t"," ","w","o","u","l","d"," ","b","e"," ","g","r","e","a","t"," ","i","f"," ","I"," ","c","o","u","l","d"," ","s","o","r","t"," ","m","y"," ","i","n","v","e","s","t","m","e","n","t","s"," ","b","y"," ","'","V","i","n","t","a","g","e"," ","Y","e","a","r","'"," ","o","n"," ","t","h","e"," ","d","a","s","h","b","o","a","r","d","."," ","J","u","s","t"," ","a"," ","t","h","o","u","g","h","t","!">>]

SampleTickets == << Sample101, Sample102, Sample103, Sample104, Sample105 >>

(* ---------------------------------------------------------------------- *)
(* Ticket records handed to analyze_ticket                                 *)
(* ---------------------------------------------------------------------- *)
\* fragments of ticket text: the keywords of the rules, alone or inside a
\* longer word, in the capitalisation tickets use
Words == << <<"t","o","d","a","y">>, <<"m","i","s","s","i","n","g">>, <<"?","?">>, <<"5","0","0"," ","e","r","r","o","r">>, <<"L","o","g","i","n">>, <<"c","a","n","'","t">>, <<"t","r","y","i","n","g"," ","t","o"," ","l","o","g"," ","i","n">>, <<"f","e","a","t","u","r","e">>, <<"w","o","u","l","d"," ","b","e"," ","g","r","e","a","t">>, <<"d","i","s","t","r","i","b","u","t","i","o","n">>, <<"a","c","c","o","u","n","t","a","n","t">>, <<"K","-","1","s">>, <<"a","c","c","e","s","s">>, <<"p","l","e","a","s","e"," ","u","p","d","a","t","e">>, <<"u","n","a","c","c","e","p","t","a","b","l","e">>, <<"a","n","g","r","y">>, <<"n","e","e","d"," ","t","h","i","s">>, <<"r","e","p","o","r","t">>, <<"s","t","a","n","d","b","y">>, <<"p","a","s","s","w","o","r","d">> >>

Min(S) == CHOOSE k \in S : \A j \in S : k <= j

RECURSIVE BodyOf(_)
\* the fragments numbered in S, in order, separated by one space
BodyOf(S) ==
  IF S = {} THEN << >>
  ELSE LET k == Min(S)
       IN  IF S = {k} THEN Words[k] ELSE Words[k] \o << " " >> \o BodyOf(S \ {k})

\* ticket bodies of at most MaxWords fragments
Bodies == { BodyOf(S) : S \in { T \in SUBSET (1..Len(Words)) : Cardinality(T) <= MaxWords } }

\* a dict holding only the keys in D
Restrict(td, D) == [k \in D |-> td[k]]

\* well-formed ticket dicts: the sample tickets and generated ones
GoodRecords ==
  { SampleTickets[k] : k \in 1..Len(SampleTickets) }
    \cup { [id |-> 1, subject |-> << >>, body |-> b] : b \in Bodies }

\* ticket dicts with one or more of the three keys missing
BadRecords ==
  { Restrict(td, D) : td \in { Sample101, Sample104, [id |-> 1, subject |-> << >>, body |-> << >>] },
                      D \in (SUBSET {"id", "subject", "body"}) \ {{"id", "subject", "body"}} }

(* ---------------------------------------------------------------------- *)
(* index(): one frame of locals per worker thread                          *)
(* ---------------------------------------------------------------------- *)
Threads == {1, 2}

\* the locals of index() on entry, given what the thread's previous call
\* left behind, keeping the previous call's tickets and summary (as
\* module-level variables would); used to vary NewFrame
NewFrameKeepsResults(old, m) ==
  [pc |-> "start", method |-> m, analyzed |-> << >>, i |-> 1,
   tickets |-> old.tickets, summary |-> old.summary]

\* the locals of index() on entry: tickets = None, summary = None
NewFrame(old, m) ==
  [pc |-> "start", method |-> m, analyzed |-> << >>, i |-> 1,
   tickets |-> None, summary |-> None]

IdleFrame == [pc |-> "idle", method |-> "", analyzed |-> << >>, i |-> 1, tickets |-> None, summary |-> None]

\* one iteration of the list comprehension, appending to a list that all
\* threads share; used to vary AppendAnalyzed
AppendAnalyzedShared(fr, r, t) ==
  [q \in DOMAIN fr |->
     IF q = r \/ fr[q].pc = "analyze"
     THEN [fr[q] EXCEPT !.analyzed = Append(@, t)]
     ELSE fr[q]]

\* one iteration of the list comprehension in thread r: append to its list
AppendAnalyzed(fr, r, t) == [fr EXCEPT ![r].analyzed = Append(@, t)]

\* where list.sort puts the next element t into the already sorted prefix,
\* when the list is sorted ascending and then reversed; used to vary
\* InsertDesc
InsertDescTiesReversed(sorted, t) ==
  LET k == Cardinality({ j \in 1..Len(sorted) : sorted[j].priority_score > t.priority_score })
  IN  SubSeq(sorted, 1, k) \o << t >> \o SubSeq(sorted, k + 1, Len(sorted))

\* where list.sort(key=priority_score, reverse=True) puts the next element
\* t into the already sorted prefix: behind every element whose key is not
\* smaller (reverse=True keeps the order of equal keys)
InsertDesc(sorted, t) ==
  LET k == Cardinality({ j \in 1..Len(sorted) : sorted[j].priority_score >= t.priority_score })
  IN  SubSeq(sorted, 1, k) \o << t >> \o SubSeq(sorted, k + 1, Len(sorted))

RECURSIVE SortFrom(_, _, _)
SortFrom(list, k, sorted) ==
  IF k > Len(list) THEN sorted ELSE SortFrom(list, k + 1, InsertDesc(sorted, list[k]))

\* analyzed.sort(key=lambda t: t.priority_score, reverse=True)
sort(list) == SortFrom(list, 1, << >>)

\* sum(1 for t in tickets if t.priority == tier)
CountTier(tickets, tier) == Cardinality({ k \in 1..Len(tickets) : tickets[k].priority = tier })

\* the summary dict
SummaryOf(tickets) ==
  [urgent |-> CountTier(tickets, "Urgent"), critical |-> CountTier(tickets, "Critical"),
   high |-> CountTier(tickets, "High"), normal |-> CountTier(tickets, "Normal"),
   low |-> CountTier(tickets, "Low")]

\* render_template_string(HTML_TEMPLATE, tickets=tickets, summary=summary):
\* what the page shows.  `{% if not tickets %}` takes None and the empty
\* list alike; the summary shows Normal and Low as one figure.
Render(tickets, summary) ==
  IF tickets = None \/ tickets = Some(<< >>)
  THEN [button |-> "Start AI Triage", tickets |-> << >>, summary |-> None]
  ELSE [button |-> "Reset",
        tickets |-> [k \in 1..Len(tickets[1]) |->
                       LET t == tickets[1][k]
                       IN  [index |-> k, priority |-> t.priority, priority_score |-> t.priority_score,
                            id |-> t.id, subject |-> t.subject, body |-> t.body,
                            sentiment |-> t.sentiment, action_type |-> t.action_type,
                            categories |-> t.categories,
                            urgency |-> t.urgency, urgency_pts |-> t.urgency * 3,
                            financial_impact |-> t.financial_impact, financial_pts |-> t.financial_impact * 3,
                            blocking |-> t.blocking, blocking_pts |-> t.blocking * 2]],
        summary |-> Some([urgent |-> summary[1].urgent, critical |-> summary[1].critical,
                          high |-> summary[1].high, normal_low |-> summary[1].normal + summary[1].low])]

(* ---------------------------------------------------------------------- *)
(* Ticket lists served by index()                                          *)
(* ---------------------------------------------------------------------- *)
\* short tickets, two of them with the same score
TicketPool ==
  { [id |-> 1, subject |-> << >>, body |-> <<"e","r","r","o","r">>],
    [id |-> 2, subject |-> << >>, body |-> <<"5","0","0">>],
    [id |-> 3, subject |-> << >>, body |-> <<"t","o","d","a","y"," ","c","a","n","'","t">>] }

\* the list of the source, and lists of at most MaxTickets distinct pool tickets
TicketLists ==
  { SampleTickets } \cup
  UNION { { l \in [1..n -> TicketPool] : \A j, k \in 1..n : j # k => l[j] # l[k] } : n \in 1..MaxTickets }

RECURSIVE Analyzed(_)
\* the list comprehension of index() run on its own
Analyzed(list) ==
  IF list = << >> THEN << >>
  ELSE << analyze_ticket(Head(list)).value[1] >> \o Analyzed(Tail(list))

\* the page a POST / produces when no other request runs
RunAlone(list) ==
  LET tickets == sort(Analyzed(list))
  IN  Render(Some(tickets), Some(SummaryOf(tickets)))

(* ---------------------------------------------------------------------- *)
(* Specification of the scorer: one call of analyze_ticket                 *)
(* ---------------------------------------------------------------------- *)
HandlerIdle ==
  /\ frames = [r \in Threads |-> IdleFrame]
  /\ nreq = 0
  /\ log = << >>
  /\ overlapped = [r \in Threads |-> FALSE]
  /\ initTickets = SAMPLE_TICKETS

InitScore ==
  /\ ticket_data \in GoodRecords \cup BadRecords
  /\ result = None
  /\ SAMPLE_TICKETS = SampleTickets
  /\ HandlerIdle

\* the call analyze_ticket(ticket_data)
Analyze ==
  /\ result = None
  /\ result' = Some(analyze_ticket(ticket_data))
  /\ UNCHANGED <<ticket_data, SAMPLE_TICKETS, frames, nreq, log, overlapped, initTickets>>

NextScore == Analyze

SpecScore == InitScore /\ [][NextScore]_vars

(* ---------------------------------------------------------------------- *)
(* Specification of the server: index() on two worker threads              *)
(* ---------------------------------------------------------------------- *)
Init ==
  /\ ticket_data = Sample101
  /\ result = None
  /\ SAMPLE_TICKETS \in TicketLists
  /\ HandlerIdle

\* the steps of a POST between its first scoring and its rendering
MidPost == {"analyze", "sort", "summary"}

\* thread r runs while another thread is in the middle of a POST
Overlap(r) == [overlapped EXCEPT ![r] = @ \/ \E q \in Threads \ {r} : frames[q].pc \in MidPost]

\* a request with method m arrives at idle thread r: index() is entered and
\* tests request.method
Receive(r, m) ==
  /\ frames[r].pc = "idle"
  /\ nreq < MaxRequests
  /\ nreq' = nreq + 1
  /\ frames' = [frames EXCEPT ![r] =
        [NewFrame(frames[r], m) EXCEPT !.pc =
           IF m # "POST" THEN "render"
           ELSE IF Len(SAMPLE_TICKETS) = 0 THEN "sort" ELSE "analyze"]]
  /\ overlapped' = [overlapped EXCEPT ![r] = FALSE]
  /\ UNCHANGED <<ticket_data, result, SAMPLE_TICKETS, log, initTickets>>

Get(r) == Receive(r, "GET")

Post(r) == Receive(r, "POST")

\* one iteration of [analyze_ticket(ticket) for ticket in SAMPLE_TICKETS]
AnalyzeNext(r) ==
  /\ frames[r].pc = "analyze"
  /\ frames[r].i <= Len(SAMPLE_TICKETS)
  /\ LET i  == frames[r].i
         t  == analyze_ticket(SAMPLE_TICKETS[i]).value[1]
         fr == AppendAnalyzed(frames, r, t)
     IN  frames' = [fr EXCEPT ![r].i = i + 1,
                              ![r].pc = IF i = Len(SAMPLE_TICKETS) THEN "sort" ELSE "analyze"]
  /\ overlapped' = Overlap(r)
  /\ UNCHANGED <<ticket_data, result, SAMPLE_TICKETS, nreq, log, initTickets>>

\* analyzed.sort(...); tickets = analyzed
SortStep(r) ==
  /\ frames[r].pc = "sort"
  /\ LET sorted == sort(frames[r].analyzed)
     IN  frames' = [frames EXCEPT ![r].analyzed = sorted, ![r].tickets = Some(sorted), ![r].pc = "summary"]
  /\ overlapped' = Overlap(r)
  /\ UNCHANGED <<ticket_data, result, SAMPLE_TICKETS, nreq, log, initTickets>>

\* summary = {...}
SummaryStep(r) ==
  /\ frames[r].pc = "summary"
  /\ frames' = [frames EXCEPT ![r].summary = Some(SummaryOf(frames[r].tickets[1])), ![r].pc = "render"]
  /\ overlapped' = Overlap(r)
  /\ UNCHANGED <<ticket_data, result, SAMPLE_TICKETS, nreq, log, initTickets>>

\* return render_template_string(...): the response is sent
Respond(r) ==
  /\ frames[r].pc = "render"
  /\ log' = Append(log, [method |-> frames[r].method, thread |-> r, overlapped |-> overlapped[r],
                         response |-> Render(frames[r].tickets, frames[r].summary)])
  /\ frames' = [frames EXCEPT ![r].pc = "idle"]
  /\ UNCHANGED <<ticket_data, result, SAMPLE_TICKETS, nreq, overlapped, initTickets>>

Next ==
  \E r \in Threads :
    \/ Get(r)
    \/ Post(r)
    \/ AnalyzeNext(r)
    \/ SortStep(r)
    \/ SummaryStep(r)
    \/ Respond(r)

Spec == Init /\ [][Next]_vars

(* ---------------------------------------------------------------------- *)
(* Properties of the scorer (SpecScore)                                    *)
(* ---------------------------------------------------------------------- *)
\* analyze_ticket has returned a Ticket
Returned == result # None /\ result[1].raised = ""

\* the returned Ticket
T == result[1].value[1]

\* the call on the first sample ticket has returned
C1_Called == ticket_data = Sample101 /\ Returned

\* C1 as stated: the sample ticket "Login help" scores urgency 10,
\* financial impact 3, blocking 10, sentiment Negative (-2), categories with
\* Authentication and Tax Documents, score 57, tier Urgent, action Immediate
\* Response Required.
C1_SampleAsStated ==
  C1_Called =>
    /\ T.urgency = 10 /\ T.financial_impact = 3 /\ T.blocking = 10
    /\ T.sentiment = "Negative"
    /\ InList("Authentication", T.categories) /\ InList("Tax Documents", T.categories)
    /\ T.priority_score = 57
    /\ T.priority = "Urgent"
    /\ T.action_type = "Immediate Response Required"

\* C1, amended: the sample ticket "Login help" scores urgency 10, financial
\* impact 8 ("accountant" contains "account"), blocking 10, sentiment
\* Negative (-2), categories Authentication, Tax Documents and Banking,
\* score 10*3 + 8*3 + 10*2 - 2 = 72, tier Urgent, action Immediate Response
\* Required.
C1_Sample ==
  C1_Called =>
    /\ T.urgency = 10 /\ T.financial_impact = 8 /\ T.blocking = 10
    /\ T.sentiment = "Negative"
    /\ T.priority_score - (10 * 3 + 8 * 3 + 10 * 2) = -2
    /\ T.categories = << "Authentication", "Tax Documents", "Banking" >>
    /\ T.priority_score = 72
    /\ T.priority = "Urgent"
    /\ T.action_type = "Immediate Response Required"

C1_Witness == C1_Called /\ T.id = 101 /\ T.financial_impact = 8

\* C2 as stated: the priority score of every returned ticket is between -3
\* and 69 inclusive.
C2_ScoreRange == Returned => T.priority_score \in -3..69

\* C2, amended: the priority score of every returned ticket is between -3
\* and 81 inclusive (81 = 10*3 + 10*3 + 10*2 + 1).
C2_ScoreRangeAmended == Returned => T.priority_score \in -3..81

C2_Witness == Returned /\ T.priority_score = 81

\* C3: a record that lacks any of id, subject, body makes analyze_ticket
\* fail before any scoring step has been computed, also when only id is
\* missing.
C3_FailsBeforeScoring ==
  (result # None /\ DOMAIN ticket_data # {"id", "subject", "body"}) =>
    /\ result[1].raised # ""
    /\ result[1].value = None
    /\ result[1].steps = {}

\* the value the spec gives each sentiment label
SentimentValueOfLabel(label) ==
  CASE label = "Very Negative" -> -3
    [] label = "Negative" -> -2
    [] label = "Neutral" -> 0
    [] label = "Positive" -> 1

\* C4: the returned priority_score equals urgency*3 + financial_impact*3 +
\* blocking*2 + sentiment_value, with the subscores of the returned record
\* and sentiment_value recomputed from the returned sentiment label.
C4_ScoreFormula ==
  Returned =>
    /\ T.sentiment \in {"Very Negative", "Negative", "Neutral", "Positive"}
    /\ T.priority_score =
         T.urgency * 3 + T.financial_impact * 3 + T.blocking * 2 + SentimentValueOfLabel(T.sentiment)

C4_Witness ==
  Returned /\ T.sentiment = "Positive" /\ T.urgency = 7 /\ T.financial_impact = 8 /\ T.blocking = 10

\* severity of a tier: Urgent > Critical > High > Normal > Low
TierRank(tier) ==
  CASE tier = "Urgent" -> 5
    [] tier = "Critical" -> 4
    [] tier = "High" -> 3
    [] tier = "Normal" -> 2
    [] tier = "Low" -> 1

\* the five sample tickets as scored, to compare any returned ticket with
ScoredSamples == { Analyzed(SampleTickets)[k] : k \in 1..Len(SampleTickets) }

\* C5: the tier is a step function of the score alone (>= 50 Urgent, 45..49
\* Critical, 35..44 High, 20..34 Normal, below 20 Low), and of two tickets
\* the one with the higher or equal score never has the less severe tier.
C5_TierStepFunction ==
  Returned =>
    /\ (T.priority_score >= 50) = (T.priority = "Urgent")
    /\ (T.priority_score \in 45..49) = (T.priority = "Critical")
    /\ (T.priority_score \in 35..44) = (T.priority = "High")
    /\ (T.priority_score \in 20..34) = (T.priority = "Normal")
    /\ (T.priority_score < 20) = (T.priority = "Low")
    /\ \A o \in ScoredSamples :
         /\ T.priority_score >= o.priority_score => TierRank(T.priority) >= TierRank(o.priority)
         /\ o.priority_score >= T.priority_score => TierRank(o.priority) >= TierRank(T.priority)

C5_Witness == Returned /\ T.priority_score = 45 /\ T.priority = "Critical"

\* C6: every returned ticket has exactly one action type, the one of the
\* first matching rule: tier Urgent or Critical, Technical Issue, Feature
\* Request, Banking or Distributions, otherwise Standard Support.
C6_ActionFirstMatch ==
  Returned =>
    /\ T.action_type \in {"Immediate Response Required", "Engineering Investigation",
                          "Product Backlog", "Account Management", "Standard Support"}
    /\ (T.priority \in {"Urgent", "Critical"}) => T.action_type = "Immediate Response Required"
    /\ (T.priority \notin {"Urgent", "Critical"}) =>
         /\ InList("Technical Issue", T.categories) => T.action_type = "Engineering Investigation"
         /\ ~InList("Technical Issue", T.categories) =>
              /\ InList("Feature Request", T.categories) => T.action_type = "Product Backlog"
              /\ ~InList("Feature Request", T.categories) =>
                   /\ (InList("Banking", T.categories) \/ InList("Distributions", T.categories))
                        => T.action_type = "Account Management"
                   /\ ~(InList("Banking", T.categories) \/ InList("Distributions", T.categories))
                        => T.action_type = "Standard Support"

C6_Witness ==
  /\ Returned
  /\ T.priority = "Urgent"
  /\ InList("Technical Issue", T.categories) /\ InList("Feature Request", T.categories)
  /\ InList("Banking", T.categories)
  /\ T.action_type = "Immediate Response Required"

\* C10: a returned ticket whose categories contain Escalation has sentiment
\* Very Negative, and -3 is the sentiment value in its score.
C10_EscalationVeryNegative ==
  (Returned /\ InList("Escalation", T.categories)) =>
    /\ T.sentiment = "Very Negative"
    /\ T.priority_score = T.urgency * 3 + T.financial_impact * 3 + T.blocking * 2 - 3

C10_Witness ==
  /\ Returned
  /\ InList("Escalation", T.categories)
  /\ Contains(TextOf(ticket_data.subject, ticket_data.body), <<"n","e","e","d"," ","t","h","i","s">>)
  /\ Contains(TextOf(ticket_data.subject, ticket_data.body), <<"w","o","u","l","d"," ","b","e"," ","g","r","e","a","t">>)

(* ---------------------------------------------------------------------- *)
(* Properties of the server (Spec)                                         *)
(* ---------------------------------------------------------------------- *)
\* each ticket list with its tickets as scored one by one and with the page
\* of a POST / that runs alone
Reference == { [list |-> l, scored |-> Analyzed(l), alone |-> RunAlone(l)] : l \in TicketLists }

ScoredOf(l) == (CHOOSE e \in Reference : e.list = l).scored

AloneOf(l) == (CHOOSE e \in Reference : e.list = l).alone

\* thread r's POST has produced its ticket list (line 511)
Produced(r) == frames[r].method = "POST" /\ frames[r].pc \in {"summary", "render"}

\* out is scored, reordered by a permutation that puts higher scores first
\* and keeps tickets of equal score in their order in scored
StableDescending(out, scored) ==
  /\ Len(out) = Len(scored)
  /\ \E p \in Permutations(1..Len(scored)) :
       /\ \A k \in 1..Len(out) : out[k] = scored[p[k]]
       /\ \A j, k \in 1..Len(out) :
            j < k => /\ out[j].priority_score >= out[k].priority_score
                     /\ out[j].priority_score = out[k].priority_score => p[j] < p[k]

\* C7: the ticket list a POST / produces is a permutation of the scored
\* input list in non-increasing priority_score order, tickets of equal
\* score keeping their relative order of the input list.
C7_StableSort ==
  \A r \in Threads :
    Produced(r) => StableDescending(frames[r].tickets[1], ScoredOf(SAMPLE_TICKETS))

C7_Witness ==
  \E r \in Threads :
    /\ Produced(r)
    /\ \E j, k \in 1..Len(frames[r].tickets[1]) :
         /\ j < k
         /\ frames[r].tickets[1][j].priority_score = frames[r].tickets[1][k].priority_score
         /\ frames[r].tickets[1][j].id > frames[r].tickets[1][k].id

\* the POST responses sent so far
PostsSent == { k \in 1..Len(log) : log[k].method = "POST" }

\* C8: every GET / is rendered with no tickets and no summary, however many
\* POST / came before it, and every POST / is rendered with the ticket list
\* and summary of the first POST /.
C8_NoLeakedState ==
  \A k \in 1..Len(log) :
    /\ log[k].method = "GET" =>
         /\ log[k].response.tickets = << >>
         /\ log[k].response.summary = None
    /\ log[k].method = "POST" =>
         /\ log[k].response.tickets = log[Min(PostsSent)].response.tickets
         /\ log[k].response.summary = log[Min(PostsSent)].response.summary

C8_Witness ==
  /\ Len(log) = 3
  /\ log[1].method = "POST" /\ log[2].method = "GET" /\ log[3].method = "POST"
  /\ log[1].thread = log[2].thread /\ log[2].thread = log[3].thread
  /\ log[1].response.tickets # << >>

\* C9: two POST / handled concurrently, their steps interleaved in any
\* order, both produce the sorted ticket list and the tier counts of a
\* request run alone, and SAMPLE_TICKETS is left unchanged.
C9_ConcurrentPosts ==
  /\ SAMPLE_TICKETS = initTickets
  /\ \A k \in 1..Len(log) :
       (log[k].method = "POST" /\ log[k].overlapped) =>
         /\ log[k].response.tickets = AloneOf(initTickets).tickets
         /\ log[k].response.summary = AloneOf(initTickets).summary

C9_Witness ==
  \E j, k \in 1..Len(log) :
    /\ j < k
    /\ log[j].method = "POST" /\ log[k].method = "POST"
    /\ log[j].thread # log[k].thread
    /\ log[j].overlapped /\ log[k].overlapped
    /\ Len(log[k].response.tickets) > 1

====
